---- MODULE Spec2Model ----
(***************************************************************************)
(* A model of the stack-editor: the View (cursor, scroll offset, search    *)
(* context over a Buffer of Lines) and the Editor's event loop that drives *)
(* it.  A Line is a sequence of grapheme clusters; every grapheme has a    *)
(* display width.  Option values are sequences of length at most one:      *)
(* None is <<>> and Some(x) is <<x>>.                                      *)
(***************************************************************************)
EXTENDS Integers, Sequences, FiniteSets, TLC

VARIABLES
    view,           \* Editor.view : View
    prompt_type,    \* Editor.prompt_type : "None" | "Save" | "Find"
    command_bar,    \* Editor.command_bar's value (a sequence of graphemes)
    terminal_size,  \* Editor.terminal_size : Size
    quit_times,     \* Editor.quit_times
    should_quit,    \* Editor.should_quit
    last_op,        \* history: the name of the last operation or command
    session,        \* history: Some(what enter_search saw) while only search
                    \* operations have followed it, None otherwise
    message,        \* Editor.message_bar's current message
    io_log,         \* history: the file and terminal calls of the last step
    build,          \* "debug" or "release" (cfg(debug_assertions))
    phase,          \* "running", "exited" (run returned, Editor dropped) or
                    \* "panicked"
    prior           \* history: Some(the View before the last operation) where
                    \* single operations are followed, None otherwise

vars == <<view, prompt_type, command_bar, terminal_size, quit_times,
          should_quit, last_op, session, message, io_log, build, phase,
          prior>>

-----------------------------------------------------------------------------
(* Bounds of the model *)

MaxLines == 2
MaxGraphemes == 2
MaxQueryLen == 1
MaxTermHeight == 3
MaxTermWidth == 2
MaxViewHeight == 2
MaxViewWidth == 2
MaxSearchDocSize == 4
MaxSearchQueryLen == 2
MaxEditDocSize == 5
MaxScrollDocSize == 3
MaxSessionDocSize == 2
MaxSessionTermWidth == 1
MaxFindDocSize == 3

(* Program constants *)

QUIT_TIMES == 3
TabWidth == 1
WideWidth == 2

-----------------------------------------------------------------------------
(* Option, saturating arithmetic *)

None == <<>>
Some(x) == <<x>>
IsSome(o) == o /= <<>>
Unwrap(o) == o[1]

Min(a, b) == IF a < b THEN a ELSE b
SatSub(a, b) == IF a > b THEN a - b ELSE 0
DivCeil(a, b) == (a + b - 1) \div b

Location(l, g) == [line_idx |-> l, grapheme_idx |-> g]
Position(r, c) == [row |-> r, col |-> c]
Size(h, w) == [height |-> h, width |-> w]

-----------------------------------------------------------------------------
(* Graphemes: "W" is a double-width character, the one that is typed as a  *)
(* character key here; "TAB" is the tab character, which the Tab key        *)
(* inserts.                                                                 *)

TypedChars == {"W"}
Graphemes == TypedChars \cup {"TAB"}

GraphemeWidth(ch) ==
    IF ch = "W" THEN WideWidth ELSE IF ch = "TAB" THEN TabWidth ELSE 1

-----------------------------------------------------------------------------
(* Line *)

grapheme_count(line) == Len(line)

RECURSIVE SumWidths(_, _)
SumWidths(line, n) ==
    IF n = 0 THEN 0 ELSE SumWidths(line, n - 1) + GraphemeWidth(line[n])

width_until(line, grapheme_idx) ==
    SumWidths(line, Min(grapheme_idx, Len(line)))

Line_insert_char(line, ch, at) ==
    LET i == Min(at, Len(line))
    IN SubSeq(line, 1, i) \o <<ch>> \o SubSeq(line, i + 1, Len(line))

Line_delete(line, at) ==
    IF at < Len(line)
    THEN SubSeq(line, 1, at) \o SubSeq(line, at + 2, Len(line))
    ELSE line

-----------------------------------------------------------------------------
(* Buffer: [lines, dirty, file_loaded] *)

height(buffer) == Len(buffer.lines)

TotalGraphemes(lines) ==
    LET RECURSIVE Tot(_)
        Tot(n) == IF n = 0 THEN 0 ELSE Tot(n - 1) + Len(lines[n])
    IN Tot(Len(lines))

Buffer_insert_char(buffer, ch, at) ==
    IF at.line_idx = height(buffer)
    THEN [buffer EXCEPT !.lines = Append(@, <<ch>>), !.dirty = TRUE]
    ELSE IF at.line_idx < height(buffer)
    THEN [buffer EXCEPT
            !.lines[at.line_idx + 1] = Line_insert_char(@, ch, at.grapheme_idx),
            !.dirty = TRUE]
    ELSE buffer

Buffer_insert_newline(buffer, at) ==
    IF at.line_idx = height(buffer)
    THEN [buffer EXCEPT !.lines = Append(@, <<>>), !.dirty = TRUE]
    ELSE IF at.line_idx < height(buffer)
    THEN LET line == buffer.lines[at.line_idx + 1]
             g == Min(at.grapheme_idx, Len(line))
         IN [buffer EXCEPT
               !.lines = SubSeq(@, 1, at.line_idx)
                         \o <<SubSeq(line, 1, g), SubSeq(line, g + 1, Len(line))>>
                         \o SubSeq(@, at.line_idx + 2, Len(@)),
               !.dirty = TRUE]
    ELSE buffer

Buffer_delete(buffer, at) ==
    IF at.line_idx < height(buffer)
    THEN LET line == buffer.lines[at.line_idx + 1]
         IN IF at.grapheme_idx >= Len(line) /\ height(buffer) > at.line_idx + 1
            THEN [buffer EXCEPT
                    !.lines = SubSeq(@, 1, at.line_idx)
                              \o <<line \o buffer.lines[at.line_idx + 2]>>
                              \o SubSeq(@, at.line_idx + 3, Len(@)),
                    !.dirty = TRUE]
            ELSE IF at.grapheme_idx < Len(line)
            THEN [buffer EXCEPT
                    !.lines[at.line_idx + 1] = Line_delete(@, at.grapheme_idx),
                    !.dirty = TRUE]
            ELSE buffer
    ELSE buffer

(* The starts of the occurrences of query in the document: matching is a    *)
(* plain substring match over a line's content.                             *)
Line_matches(line, query) ==
    {g \in 0..Len(line) :
        /\ g + Len(query) <= Len(line)
        /\ SubSeq(line, g + 1, g + Len(query)) = query}

Buffer_matches(buffer, query) ==
    UNION {{Location(l, g) : g \in Line_matches(buffer.lines[l + 1], query)} :
             l \in 0..(Len(buffer.lines) - 1)}

(* The order of the scan: increasing (line_idx, offset). *)
Precedes(a, b) ==
    \/ a.line_idx < b.line_idx
    \/ a.line_idx = b.line_idx /\ a.grapheme_idx < b.grapheme_idx

Earliest(matches) ==
    CHOOSE a \in matches : \A b \in matches : a = b \/ Precedes(a, b)

Latest(matches) ==
    CHOOSE a \in matches : \A b \in matches : a = b \/ Precedes(b, a)

(* Forward search: the first occurrence after from, an occurrence that      *)
(* starts exactly at from left out; with none before the end of the         *)
(* document the scan wraps to its start.  None only when the query is empty *)
(* or occurs nowhere.                                                       *)
Buffer_search_forward(buffer, query, from) ==
    LET matches == Buffer_matches(buffer, query)
        ahead == {m \in matches : Precedes(from, m)}
    IN IF query = <<>> \/ matches = {} THEN None
       ELSE IF ahead /= {} THEN Some(Earliest(ahead))
       ELSE Some(Earliest(matches))

(* Backward search: symmetric, in decreasing order, wrapping to the end of  *)
(* the document.                                                            *)
Buffer_search_backward(buffer, query, from) ==
    LET matches == Buffer_matches(buffer, query)
        behind == {m \in matches : Precedes(m, from)}
    IN IF query = <<>> \/ matches = {} THEN None
       ELSE IF behind /= {} THEN Some(Latest(behind))
       ELSE Some(Latest(matches))

-----------------------------------------------------------------------------
(* View: [buffer, needs_redraw, size, text_location, scroll_offset,         *)
(* search_info, panicked, drawn].  panicked tells that a debug_assert! of   *)
(* the View was evaluated with a false condition during the last operation  *)
(* (a debug build panics there; a release build goes on as modelled).       *)
(* drawn tells what the last operation did with draw: "no" (not called),    *)
(* "ok" (called, succeeded) or "failed" (called, returned an error).        *)

set_needs_redraw(v, value) == [v EXCEPT !.needs_redraw = value]

line_count_at(v, line_idx) ==
    IF line_idx < Len(v.buffer.lines)
    THEN grapheme_count(v.buffer.lines[line_idx + 1])
    ELSE 0

text_location_to_position(v) ==
    LET row == v.text_location.line_idx
    IN Position(row,
                IF row < Len(v.buffer.lines)
                THEN width_until(v.buffer.lines[row + 1],
                                 v.text_location.grapheme_idx)
                ELSE 0)

(* debug_assert!(row.saturating_sub(1) <= self.buffer.lines.len()) *)
position_assert(v) ==
    [v EXCEPT !.panicked =
        @ \/ SatSub(v.text_location.line_idx, 1) > Len(v.buffer.lines)]

scroll_vertically_off_by_one(v, to) ==
    IF to < v.scroll_offset.row
    THEN [v EXCEPT !.scroll_offset.row = to, !.needs_redraw = TRUE]
    ELSE IF to >= v.scroll_offset.row + v.size.height
    THEN [v EXCEPT !.scroll_offset.row = SatSub(to, v.size.height),
                   !.needs_redraw = TRUE]
    ELSE v

scroll_vertically(v, to) ==
    IF to < v.scroll_offset.row
    THEN [v EXCEPT !.scroll_offset.row = to, !.needs_redraw = TRUE]
    ELSE IF to >= v.scroll_offset.row + v.size.height
    THEN [v EXCEPT !.scroll_offset.row = SatSub(to, v.size.height) + 1,
                   !.needs_redraw = TRUE]
    ELSE v

scroll_horizontally_off_by_one(v, to) ==
    IF to < v.scroll_offset.col
    THEN [v EXCEPT !.scroll_offset.col = to, !.needs_redraw = TRUE]
    ELSE IF to >= v.scroll_offset.col + v.size.width
    THEN [v EXCEPT !.scroll_offset.col = SatSub(to, v.size.width),
                   !.needs_redraw = TRUE]
    ELSE v

scroll_horizontally(v, to) ==
    IF to < v.scroll_offset.col
    THEN [v EXCEPT !.scroll_offset.col = to, !.needs_redraw = TRUE]
    ELSE IF to >= v.scroll_offset.col + v.size.width
    THEN [v EXCEPT !.scroll_offset.col = SatSub(to, v.size.width) + 1,
                   !.needs_redraw = TRUE]
    ELSE v

scroll_text_location_into_view(v) ==
    LET p == text_location_to_position(v)
    IN scroll_horizontally(scroll_vertically(position_assert(v), p.row), p.col)

center_text_location(v) ==
    LET p == text_location_to_position(v)
        vertical_mid == DivCeil(v.size.height, 2)
        horizontal_mid == DivCeil(v.size.width, 2)
    IN [position_assert(v) EXCEPT
          !.scroll_offset = Position(SatSub(p.row, vertical_mid),
                                     SatSub(p.col, horizontal_mid)),
          !.needs_redraw = TRUE]

caret_position(v) ==
    LET p == text_location_to_position(v)
    IN Position(SatSub(p.row, v.scroll_offset.row),
                SatSub(p.col, v.scroll_offset.col))

snap_to_valid_grapheme(v) ==
    [v EXCEPT !.text_location.grapheme_idx =
        IF v.text_location.line_idx < Len(v.buffer.lines)
        THEN Min(line_count_at(v, v.text_location.line_idx), @)
        ELSE 0]

snap_to_valid_line(v) ==
    [v EXCEPT !.text_location.line_idx = Min(@, height(v.buffer))]

move_up(v, step) ==
    snap_to_valid_grapheme(
        [v EXCEPT !.text_location.line_idx = SatSub(@, step)])

move_down(v, step) ==
    snap_to_valid_line(snap_to_valid_grapheme(
        [v EXCEPT !.text_location.line_idx = @ + step]))

move_to_start_of_line(v) == [v EXCEPT !.text_location.grapheme_idx = 0]

move_to_end_of_line(v) ==
    [v EXCEPT !.text_location.grapheme_idx =
        line_count_at(v, v.text_location.line_idx)]

move_right(v) ==
    IF v.text_location.grapheme_idx < line_count_at(v, v.text_location.line_idx)
    THEN [v EXCEPT !.text_location.grapheme_idx = @ + 1]
    ELSE move_down(move_to_start_of_line(v), 1)

move_left_to_line_start(v) ==
    IF v.text_location.grapheme_idx > 0
    THEN [v EXCEPT !.text_location.grapheme_idx = @ - 1]
    ELSE IF v.text_location.line_idx > 0
    THEN move_up(v, 1)
    ELSE v

move_left(v) ==
    IF v.text_location.grapheme_idx > 0
    THEN [v EXCEPT !.text_location.grapheme_idx = @ - 1]
    ELSE IF v.text_location.line_idx > 0
    THEN move_to_end_of_line(move_up(v, 1))
    ELSE v

insert_newline_staying(v) ==
    set_needs_redraw(
        [v EXCEPT !.buffer = Buffer_insert_newline(@, v.text_location)],
        TRUE)

insert_newline(v) ==
    set_needs_redraw(
        move_right([v EXCEPT
            !.buffer = Buffer_insert_newline(@, v.text_location)]),
        TRUE)

delete_from_line_start(v) ==
    set_needs_redraw(
        [v EXCEPT !.buffer =
            Buffer_delete(@, Location(v.text_location.line_idx, 0))],
        TRUE)

delete(v) ==
    set_needs_redraw(
        [v EXCEPT !.buffer = Buffer_delete(@, v.text_location)], TRUE)

delete_backward(v) ==
    IF v.text_location.line_idx /= 0 \/ v.text_location.grapheme_idx /= 0
    THEN delete(move_left(v))
    ELSE v

insert_char(v, character) ==
    LET old_len == line_count_at(v, v.text_location.line_idx)
        v1 == [v EXCEPT
                 !.buffer = Buffer_insert_char(@, character, v.text_location)]
        new_len == line_count_at(v1, v.text_location.line_idx)
    IN set_needs_redraw(
           IF SatSub(new_len, old_len) > 0 THEN move_right(v1) ELSE v1, TRUE)

-----------------------------------------------------------------------------
(* View: search *)

SearchInfo(prev_location, prev_scroll_offset, query) ==
    [prev_location |-> prev_location,
     prev_scroll_offset |-> prev_scroll_offset,
     query |-> query]

enter_search(v) ==
    [v EXCEPT !.search_info =
        Some(SearchInfo(v.text_location, v.scroll_offset, None))]

exit_search_restoring(v) ==
    set_needs_redraw(
        [v EXCEPT !.search_info = None,
                  !.text_location =
                      IF IsSome(v.search_info)
                      THEN Unwrap(v.search_info).prev_location ELSE @],
        TRUE)

exit_search(v) ==
    set_needs_redraw([v EXCEPT !.search_info = None], TRUE)

dismiss_search_keeping_scroll(v) ==
    LET restored ==
            IF IsSome(v.search_info)
            THEN scroll_text_location_into_view(
                     [v EXCEPT
                        !.text_location = Unwrap(v.search_info).prev_location])
            ELSE v
    IN set_needs_redraw([restored EXCEPT !.search_info = None], TRUE)

dismiss_search(v) ==
    LET restored ==
            IF IsSome(v.search_info)
            THEN scroll_text_location_into_view(
                     [v EXCEPT
                        !.text_location = Unwrap(v.search_info).prev_location,
                        !.scroll_offset =
                            Unwrap(v.search_info).prev_scroll_offset])
            ELSE v
    IN set_needs_redraw([restored EXCEPT !.search_info = None], TRUE)

(* The query of the search context, if there is one. *)
query_of(v) ==
    IF IsSome(v.search_info) THEN Unwrap(v.search_info).query ELSE None

(* get_search_query: debug_assert!(query.is_some()) *)
get_search_query_assert(v) ==
    [v EXCEPT !.panicked = @ \/ ~IsSome(query_of(v))]

search_in_direction_always_centers(v, from, direction) ==
    LET query == query_of(v)
        location ==
            IF ~IsSome(query) THEN None
            ELSE IF Unwrap(query) = <<>> THEN None
            ELSE IF direction = "Forward"
            THEN Buffer_search_forward(v.buffer, Unwrap(query), from)
            ELSE Buffer_search_backward(v.buffer, Unwrap(query), from)
        v1 == get_search_query_assert(v)
    IN set_needs_redraw(
           center_text_location(
               IF IsSome(location)
               THEN [v1 EXCEPT !.text_location = Unwrap(location)]
               ELSE v1),
           TRUE)

search_in_direction_to_from(v, from, direction) ==
    LET query == query_of(v)
        location ==
            IF ~IsSome(query) THEN None
            ELSE IF Unwrap(query) = <<>> THEN None
            ELSE IF direction = "Forward"
            THEN Buffer_search_forward(v.buffer, Unwrap(query), from)
            ELSE Buffer_search_backward(v.buffer, Unwrap(query), from)
        v1 == get_search_query_assert(v)
    IN set_needs_redraw(
           IF IsSome(location)
           THEN center_text_location([v1 EXCEPT !.text_location = from])
           ELSE v1,
           TRUE)

search_in_direction(v, from, direction) ==
    LET query == query_of(v)
        location ==
            IF ~IsSome(query) THEN None
            ELSE IF Unwrap(query) = <<>> THEN None
            ELSE IF direction = "Forward"
            THEN Buffer_search_forward(v.buffer, Unwrap(query), from)
            ELSE Buffer_search_backward(v.buffer, Unwrap(query), from)
        v1 == get_search_query_assert(v)
    IN set_needs_redraw(
           IF IsSome(location)
           THEN center_text_location(
                    [v1 EXCEPT !.text_location = Unwrap(location)])
           ELSE v1,
           TRUE)

search(v, query) ==
    LET v1 == IF IsSome(v.search_info)
              THEN [v EXCEPT !.search_info[1].query = Some(query)]
              ELSE v
    IN search_in_direction(v1, v1.text_location, "Forward")

search_next(v) ==
    LET query == query_of(v)
        step_right == IF IsSome(query)
                      THEN Min(grapheme_count(Unwrap(query)), 1)
                      ELSE 1
        v1 == get_search_query_assert(v)
    IN search_in_direction(
           v1,
           Location(v.text_location.line_idx,
                    v.text_location.grapheme_idx + step_right),
           "Forward")

search_prev(v) == search_in_direction(v, v.text_location, "Backward")

-----------------------------------------------------------------------------
(* View as a UIComponent *)

set_size(v, size) ==
    scroll_text_location_into_view([v EXCEPT !.size = size])

View_resize(v, size) == set_needs_redraw(set_size(v, size), TRUE)

(* UIComponent::render with a draw that succeeds or fails.  A failed draw   *)
(* leaves the flag set; in a debug build it panics.                         *)
View_render_clearing_always(v, draw_ok) ==
    IF v.needs_redraw
    THEN [set_needs_redraw(v, FALSE) EXCEPT
            !.drawn = IF draw_ok THEN "ok" ELSE "failed"]
    ELSE v

View_render(v, draw_ok) ==
    IF v.needs_redraw
    THEN IF draw_ok
         THEN [set_needs_redraw(v, FALSE) EXCEPT !.drawn = "ok"]
         ELSE [v EXCEPT !.drawn = "failed"]
    ELSE v

-----------------------------------------------------------------------------
(* Buffer: save.  The write succeeds or fails (io_ok); save without a      *)
(* destination (no file loaded or saved before) is an error.  The dirty     *)
(* flag is cleared, and for save_as the file identity recorded, only on     *)
(* success.                                                                 *)

Buffer_save_ok(buffer, io_ok) == io_ok /\ buffer.file_loaded

Buffer_save(buffer, io_ok) ==
    IF Buffer_save_ok(buffer, io_ok) THEN [buffer EXCEPT !.dirty = FALSE]
    ELSE buffer

Buffer_save_as(buffer, io_ok) ==
    IF io_ok THEN [buffer EXCEPT !.dirty = FALSE, !.file_loaded = TRUE]
    ELSE buffer

View_save(v, io_ok) == [v EXCEPT !.buffer = Buffer_save(@, io_ok)]

View_save_as(v, io_ok) == [v EXCEPT !.buffer = Buffer_save_as(@, io_ok)]

is_file_loaded(v) == v.buffer.file_loaded

(* CommandBar: its value *)

append_char(value, c) == Append(value, c)

(* CommandBar::delete_last; CommandBar::delete, the Delete key of the Find   *)
(* prompt, is taken to remove the last character as well, the bar keeping   *)
(* no caret inside its value.                                               *)
delete_last(value) ==
    IF value = <<>> THEN value ELSE SubSeq(value, 1, Len(value) - 1)

clear_value(value) == <<>>

-----------------------------------------------------------------------------
(* Editor: [view, prompt_type, command_bar, terminal_size, quit_times,      *)
(* should_quit, message, io_log]                                            *)

(* A number as format! writes it. *)
Digit(d) ==
    CASE d = 0 -> "0" [] d = 1 -> "1" [] d = 2 -> "2" [] d = 3 -> "3"
      [] d = 4 -> "4" [] d = 5 -> "5" [] d = 6 -> "6" [] d = 7 -> "7"
      [] d = 8 -> "8" [] d = 9 -> "9"

RECURSIVE Decimal(_)
Decimal(n) ==
    IF n < 10 THEN Digit(n) ELSE Decimal(n \div 10) \o Digit(n % 10)

(* CommandBar::value: the typed characters as one string. *)
RECURSIVE Text(_)
Text(value) ==
    IF value = <<>> THEN "" ELSE Head(value) \o Text(Tail(value))

(* The message bar's texts *)
MsgHelp == "HELP: Ctrl-F = find | Ctrl-S = save | Ctrl-Q = quit"
MsgOpenError(file_name) == "ERR: Could not open file: " \o file_name
MsgSaved == "File saved successfully."
MsgWriteError == "Error writing file!"
MsgWarning(more) ==
    "WARNING! File has unsaved changes. Press Ctrl-Q " \o Decimal(more)
        \o " more times to quit."

update_message(e, new_message) == [e EXCEPT !.message = new_message]

(* A call recorded in the log: its name, the file name or the component it  *)
(* was given (empty where it takes none) and whether it succeeded.          *)
Call(name, file_name, ok) == [call |-> name, name |-> file_name, ok |-> ok]

logged(e, call) == [e EXCEPT !.io_log = Append(@, call)]

Editor_resize(e, size) ==
    [e EXCEPT !.terminal_size = size,
              !.view = View_resize(@, Size(SatSub(size.height, 2), size.width))]

handle_quit(e) ==
    IF ~e.view.buffer.dirty \/ e.quit_times + 1 = QUIT_TIMES
    THEN [e EXCEPT !.should_quit = TRUE]
    ELSE [update_message(e, MsgWarning(QUIT_TIMES - e.quit_times - 1))
             EXCEPT !.quit_times = @ + 1]

reset_quit_times(e) ==
    IF e.quit_times > 0
    THEN [update_message(e, "") EXCEPT !.quit_times = 0]
    ELSE e

show_prompt(e, new_prompt_type) ==
    IF new_prompt_type = "Save"
    THEN [e EXCEPT !.prompt_type = "Save"]
    ELSE IF new_prompt_type = "Find"
    THEN [e EXCEPT !.view = enter_search(@), !.prompt_type = "Find"]
    ELSE e

dismiss_prompt(e) ==
    LET e1 == IF e.prompt_type = "Find"
              THEN [e EXCEPT !.view = dismiss_search(@)]
              ELSE IF e.prompt_type = "Save" THEN e
              ELSE handle_quit(e)
    IN [e1 EXCEPT !.command_bar = clear_value(@),
                  !.prompt_type = "None",
                  !.view = set_needs_redraw(@, TRUE)]

Editor_save_reporting_success(e, with_name, io_ok) ==
    LET ok == IF with_name THEN io_ok
              ELSE Buffer_save_ok(e.view.buffer, io_ok)
        saved == IF with_name
                 THEN logged([e EXCEPT !.view = View_save_as(@, io_ok)],
                             Call("save_as", Text(e.command_bar), ok))
                 ELSE logged([e EXCEPT !.view = View_save(@, io_ok)],
                             Call("save", "", ok))
    IN update_message(saved, MsgSaved)

(* Editor::save(Some(value)) with with_name, Editor::save(None) without. *)
Editor_save(e, with_name, io_ok) ==
    LET ok == IF with_name THEN io_ok
              ELSE Buffer_save_ok(e.view.buffer, io_ok)
        saved == IF with_name
                 THEN logged([e EXCEPT !.view = View_save_as(@, io_ok)],
                             Call("save_as", Text(e.command_bar), ok))
                 ELSE logged([e EXCEPT !.view = View_save(@, io_ok)],
                             Call("save", "", ok))
    IN update_message(saved, IF ok THEN MsgSaved ELSE MsgWriteError)

handle_save_without_prompt(e, io_ok) == Editor_save(e, FALSE, io_ok)

handle_save(e, io_ok) ==
    IF is_file_loaded(e.view)
    THEN Editor_save(e, FALSE, io_ok)
    ELSE show_prompt(e, "Save")

handle_enter_press(e, io_ok) ==
    IF e.prompt_type /= "None"
    THEN LET e1 == IF e.prompt_type = "Save"
                   THEN Editor_save(e, TRUE, io_ok)
                   ELSE [e EXCEPT !.view = exit_search(@)]
         IN [e1 EXCEPT !.command_bar = clear_value(@),
                       !.prompt_type = "None",
                       !.view = set_needs_redraw(@, TRUE)]
    ELSE [e EXCEPT !.view = insert_newline(@)]

handle_view_updates(e, command) ==
    IF command \in {"move_up", "move_down", "move_left", "move_right",
                    "page_up", "page_down",
                    "to_start_of_the_line", "to_end_of_the_file"}
    THEN [e EXCEPT !.view = scroll_text_location_into_view(@)]
    ELSE e

Commands ==
    {"save", "quit", "find", "move_up", "move_down", "move_left",
     "move_right", "page_up", "page_down", "to_start_of_the_line",
     "to_end_of_the_file", "tab", "dismiss", "insert_newline",
     "delete_backward", "delete"}

(* The second match of process_command. *)
dispatch(e, command, io_ok) ==
    LET finding == e.prompt_type = "Find"
        page == SatSub(e.view.size.height, 1)
    IN CASE command = "save" -> handle_save(e, io_ok)
         [] command = "quit" -> e
         [] command = "find" -> show_prompt(e, "Find")
         [] command = "move_up" ->
              [e EXCEPT !.view = IF finding THEN search_prev(@)
                                 ELSE move_up(@, 1)]
         [] command = "move_down" ->
              [e EXCEPT !.view = IF finding THEN search_next(@)
                                 ELSE move_down(@, 1)]
         [] command = "move_left" ->
              [e EXCEPT !.view = IF finding THEN search_prev(@)
                                 ELSE move_left(@)]
         [] command = "move_right" ->
              [e EXCEPT !.view = IF finding THEN search_next(@)
                                 ELSE move_right(@)]
         [] command = "page_up" -> [e EXCEPT !.view = move_up(@, page)]
         [] command = "page_down" -> [e EXCEPT !.view = move_down(@, page)]
         [] command = "to_start_of_the_line" ->
              [e EXCEPT !.view = move_to_start_of_line(@)]
         [] command = "to_end_of_the_file" ->
              [e EXCEPT !.view = move_to_end_of_line(@)]
         [] command = "delete" ->
              IF finding
              THEN LET value == delete_last(e.command_bar)
                   IN [e EXCEPT !.command_bar = value,
                                !.view = search(@, value)]
              ELSE [e EXCEPT !.view = delete(@)]
         [] command = "delete_backward" ->
              IF e.prompt_type /= "None"
              THEN LET value == delete_last(e.command_bar)
                   IN [e EXCEPT !.command_bar = value,
                                !.view = IF finding THEN search(@, value)
                                         ELSE @]
              ELSE [e EXCEPT !.view = delete_backward(@)]
         [] command = "tab" -> [e EXCEPT !.view = insert_char(@, "TAB")]
         [] command = "dismiss" -> dismiss_prompt(e)
         [] command = "insert_newline" -> handle_enter_press(e, io_ok)
         [] OTHER -> e

process_command(e, command, io_ok) ==
    LET e1 == IF command = "quit" THEN handle_quit(e)
              ELSE reset_quit_times(e)
    IN handle_view_updates(dispatch(e1, command, io_ok), command)

(* evaluate_event for a pressed character key without Ctrl/Alt. *)
evaluate_char(e, c) ==
    IF e.prompt_type /= "None"
    THEN LET value == append_char(e.command_bar, c)
         IN [e EXCEPT !.command_bar = value,
                      !.view = IF e.prompt_type = "Find"
                               THEN search(@, value) ELSE @]
    ELSE [e EXCEPT !.view = insert_char(@, c)]

(* Does refresh_screen draw anything? *)
renders(size) == ~(size.height < 3 \/ size.width = 0)

(* The results of the draws of one refresh_screen: of the View, of the      *)
(* status bar, and of the bar on the last row (the command bar while a      *)
(* prompt is open, the message bar otherwise).                              *)
Draws == [view : BOOLEAN, status_bar : BOOLEAN, last_bar : BOOLEAN]

AllDrawn == [view |-> TRUE, status_bar |-> TRUE, last_bar |-> TRUE]

(* UIComponent::render of a bar right after its resize, which sets          *)
(* needs_redraw: draw is called.                                            *)
render_bar(e, bar, draw_ok) == logged(e, Call("draw", bar, draw_ok))

(* Has a draw of the last refresh_screen failed? *)
DrawFailed(v, log) ==
    \/ v.drawn = "failed"
    \/ \E i \in DOMAIN log : log[i].call = "draw" /\ ~log[i].ok

(* The first step of refresh_screen: the View is given the rows above the   *)
(* two bars.                                                                *)
resize_content(e) ==
    IF ~renders(e.terminal_size) THEN e
    ELSE [e EXCEPT !.view =
            View_resize(@, Size(SatSub(e.terminal_size.height, 2),
                                e.terminal_size.width))]

(* The draws of refresh_screen, made on an Editor whose View is resized.    *)
(* In a debug build (debug) the first failed draw panics inside render and  *)
(* the rest of refresh_screen is not run; a release build ignores it.       *)
render_components(e, draws, debug) ==
    IF ~renders(e.terminal_size) THEN e
    ELSE LET last_bar == IF e.prompt_type /= "None" THEN "command_bar"
                         ELSE "message_bar"
             e1 == [e EXCEPT !.view = View_render(@, draws.view)]
             e2 == render_bar(e1, "status_bar", draws.status_bar)
             e3 == render_bar(e2, last_bar, draws.last_bar)
         IN IF debug /\ DrawFailed(e1.view, e1.io_log) THEN e1
            ELSE IF debug /\ DrawFailed(e2.view, e2.io_log) THEN e2
            ELSE e3

refresh_screen(e, draws, debug) ==
    render_components(resize_content(e), draws, debug)

-----------------------------------------------------------------------------
(* The bounded inputs *)

RECURSIVE SeqsUpTo(_, _)
SeqsUpTo(S, n) ==
    IF n = 0 THEN {<<>>}
    ELSE LET shorter == SeqsUpTo(S, n - 1)
         IN shorter \cup {Append(q, x) : q \in shorter, x \in S}

(* The documents of k lines with at most n graphemes in all. *)
RECURSIVE DocsOf(_, _)
DocsOf(k, n) ==
    IF k = 0 THEN {<<>>}
    ELSE UNION {{<<line>> \o rest : rest \in DocsOf(k - 1, n - Len(line))} :
                   line \in SeqsUpTo(Graphemes, n)}

Docs == UNION {DocsOf(k, MaxGraphemes) : k \in 0..MaxLines}

(* The documents searched: lines and graphemes together number at most     *)
(* MaxSearchDocSize.                                                        *)
SearchDocs ==
    UNION {DocsOf(k, MaxSearchDocSize - k) : k \in 0..MaxSearchDocSize}

Queries == SeqsUpTo(TypedChars, MaxSearchQueryLen)

(* The valid text locations of a document. *)
ValidLocations(doc) ==
    {Location(Len(doc), 0)}
    \cup UNION {{Location(l, g) : g \in 0..Len(doc[l + 1])} :
                  l \in 0..(Len(doc) - 1)}

TermSizes ==
    {Size(h, w) : h \in 3..MaxTermHeight, w \in 1..MaxTermWidth}

ViewSizes ==
    {Size(h, w) : h \in 1..MaxViewHeight, w \in 1..MaxViewWidth}

InBounds(v) ==
    /\ Len(v.buffer.lines) <= MaxLines
    /\ TotalGraphemes(v.buffer.lines) <= MaxGraphemes

-----------------------------------------------------------------------------
(* The initial states *)

(* View::default() *)
DefaultView ==
    [buffer |-> [lines |-> <<>>, dirty |-> FALSE, file_loaded |-> FALSE],
     needs_redraw |-> FALSE,
     size |-> Size(0, 0),
     text_location |-> Location(0, 0),
     scroll_offset |-> Position(0, 0),
     search_info |-> None,
     panicked |-> FALSE,
     drawn |-> "no"]

(* View::load with a file that reads as the lines doc. *)
View_load(v, doc) ==
    set_needs_redraw(
        [v EXCEPT !.buffer =
            [lines |-> doc, dirty |-> FALSE, file_loaded |-> TRUE]],
        TRUE)

(* The command line: no file named, or the name of a file (the empty name   *)
(* among them).                                                             *)
FileNames == {"", "file"}

Args == {None} \cup {Some(file_name) : file_name \in FileNames}

(* What Buffer::load can give for the command line: the lines of a document *)
(* out of docs, or an error (None); the empty name is never read.           *)
Reads(arg, docs) ==
    IF IsSome(arg) /\ Unwrap(arg) /= ""
    THEN {None} \cup {Some(doc) : doc \in docs}
    ELSE {None}

(* View::load: Buffer::load read the lines doc, or failed (read = None). *)
View_load_file(v, read) ==
    IF IsSome(read) THEN View_load(v, Unwrap(read)) ELSE v

(* Editor::new after a successful Terminal::initialize, up to the reading   *)
(* of the command line: the terminal has the given size.                    *)
Editor_new_started(size) ==
    LET e0 == [view |-> DefaultView,
               prompt_type |-> "None",
               command_bar |-> <<>>,
               terminal_size |-> Size(0, 0),
               quit_times |-> 0,
               should_quit |-> FALSE,
               message |-> "",
               io_log |-> <<>>]
    IN update_message(Editor_resize(e0, size), MsgHelp)

(* debug_assert!(!file_name.is_empty()) of Editor::new: does it hold? *)
file_name_assert(arg) == IsSome(arg) => Unwrap(arg) /= ""

(* Editor::new: the command line is arg, and read is what Buffer::load      *)
(* gives for it.                                                            *)
Editor_new(size, arg, read) ==
    LET e1 == Editor_new_started(size)
        e2 == logged([e1 EXCEPT !.view = View_load_file(@, read)],
                     Call("load", Unwrap(arg), IsSome(read)))
    IN IF ~IsSome(arg) THEN e1
       ELSE IF IsSome(read) THEN e2
       ELSE update_message(e2, MsgOpenError(Unwrap(arg)))

editor ==
    [view |-> view,
     prompt_type |-> prompt_type,
     command_bar |-> command_bar,
     terminal_size |-> terminal_size,
     quit_times |-> quit_times,
     should_quit |-> should_quit,
     message |-> message,
     io_log |-> io_log]

Is(e) ==
    /\ view = e.view
    /\ prompt_type = e.prompt_type
    /\ command_bar = e.command_bar
    /\ terminal_size = e.terminal_size
    /\ quit_times = e.quit_times
    /\ should_quit = e.should_quit

Becomes(e) ==
    /\ view' = e.view
    /\ prompt_type' = e.prompt_type
    /\ command_bar' = e.command_bar
    /\ terminal_size' = e.terminal_size
    /\ quit_times' = e.quit_times
    /\ should_quit' = e.should_quit

(* Where the message bar, the call log, the build and the end of the run    *)
(* are not followed, they keep these values.                                *)
SessionIdle ==
    /\ message = ""
    /\ io_log = <<>>
    /\ build = "release"
    /\ phase = "running"

SessionUnchanged == UNCHANGED <<message, io_log, build, phase>>

Init ==
    \E size \in TermSizes, arg \in Args :
      \E read \in Reads(arg, Docs) :
        /\ Is(refresh_screen(Editor_new(size, arg, read), AllDrawn, FALSE))
        /\ last_op = "new"
        /\ session = None
        /\ prior = None
        /\ SessionIdle

-----------------------------------------------------------------------------
(* The Editor's event loop: one step is one iteration of Editor::run from   *)
(* the event read to the next read: evaluate_event, then refresh_screen.    *)
(* io_ok is the outcome of a file write.  Here the draw succeeds and the    *)
(* message bar and the call log, which no handler reads, are not followed.  *)

Iteration(e) ==
    /\ ~should_quit
    /\ InBounds(e.view)
    /\ Len(e.command_bar) <= MaxQueryLen
    /\ Becomes(refresh_screen(e, AllDrawn, FALSE))
    /\ last_op' = "event"
    /\ UNCHANGED <<session, prior>>
    /\ SessionUnchanged

(* The Editor as the event finds it: panicked tells of this event alone. *)
before_event ==
    [editor EXCEPT !.view.panicked = FALSE, !.view.drawn = "no",
                   !.io_log = <<>>]

Key(command) == Iteration(process_command(before_event, command, TRUE))

KeyWithIo(command) ==
    \E io_ok \in BOOLEAN :
        Iteration(process_command(before_event, command, io_ok))

KeyChar == \E c \in TypedChars : Iteration(evaluate_char(before_event, c))
KeyUnbound == Key("")
KeySave == KeyWithIo("save")
KeyQuit == Key("quit")
KeyFind == Key("find")
KeyMoveUp == Key("move_up")
KeyMoveDown == Key("move_down")
KeyMoveLeft == Key("move_left")
KeyMoveRight == Key("move_right")
KeyPageUp == Key("page_up")
KeyPageDown == Key("page_down")
KeyHome == Key("to_start_of_the_line")
KeyEnd == Key("to_end_of_the_file")
KeyTab == Key("tab")
KeyEsc == Key("dismiss")
KeyEnter == KeyWithIo("insert_newline")
KeyBackspace == Key("delete_backward")
KeyDelete == Key("delete")

ResizeEvent ==
    \E size \in TermSizes : Iteration(Editor_resize(before_event, size))

Next ==
    \/ KeyChar
    \/ KeyUnbound
    \/ KeySave
    \/ KeyQuit
    \/ KeyFind
    \/ KeyMoveUp
    \/ KeyMoveDown
    \/ KeyMoveLeft
    \/ KeyMoveRight
    \/ KeyPageUp
    \/ KeyPageDown
    \/ KeyHome
    \/ KeyEnd
    \/ KeyTab
    \/ KeyEsc
    \/ KeyEnter
    \/ KeyBackspace
    \/ KeyDelete
    \/ ResizeEvent

Spec == Init /\ [][Next]_vars

-----------------------------------------------------------------------------
(* The View driven through its own operations, in any order.               *)

ViewUnchangedEditor ==
    UNCHANGED <<prompt_type, command_bar, terminal_size, quit_times,
                should_quit>>

(* The View as an operation finds it: panicked tells of this one alone. *)
before_op == [view EXCEPT !.panicked = FALSE, !.drawn = "no"]

(* What enter_search saw, and whether the cursor was visible then. *)
Visible(v) ==
    LET p == text_location_to_position(v)
    IN /\ v.scroll_offset.row <= p.row
       /\ p.row < v.scroll_offset.row + v.size.height
       /\ v.scroll_offset.col <= p.col
       /\ p.col < v.scroll_offset.col + v.size.width

Snapshot(v) ==
    [text_location |-> v.text_location,
     scroll_offset |-> v.scroll_offset,
     visible |-> Visible(v),
     moved |-> FALSE,
     closed |-> FALSE]

(* The history of a search session: opened by enter_search, followed        *)
(* through search, search_next and search_prev (moved: one of them moved    *)
(* the cursor), closed by exit_search or dismiss_search, forgotten at any   *)
(* other operation.                                                         *)
SessionAfter(op, v_old, v_new) ==
    IF op = "enter_search" THEN Some(Snapshot(v_old))
    ELSE IF IsSome(session) /\ ~Unwrap(session).closed
    THEN IF op \in {"search", "search_next", "search_prev"}
         THEN Some([Unwrap(session) EXCEPT
                      !.moved = @ \/ v_new.text_location /= v_old.text_location])
         ELSE IF op \in {"exit_search", "dismiss_search"}
         THEN Some([Unwrap(session) EXCEPT !.closed = TRUE])
         ELSE None
    ELSE None

SearchOps ==
    {"enter_search", "search", "search_next", "search_prev", "exit_search",
     "dismiss_search"}

ViewOp(v, op) ==
    /\ v.buffer.lines = view.buffer.lines \/ InBounds(v)
    /\ view' = v
    /\ last_op' = IF op \in SearchOps THEN op ELSE "other"
    /\ session' = SessionAfter(op, view, v)
    /\ ViewUnchangedEditor
    /\ SessionUnchanged
    /\ UNCHANGED prior

MoveUp == \E step \in 1..MaxLines : ViewOp(move_up(before_op, step), "move_up")
MoveDown ==
    \E step \in 1..MaxLines : ViewOp(move_down(before_op, step), "move_down")
MoveLeft == ViewOp(move_left(before_op), "move_left")
MoveRight == ViewOp(move_right(before_op), "move_right")
MoveToStartOfLine ==
    ViewOp(move_to_start_of_line(before_op), "move_to_start_of_line")
MoveToEndOfLine ==
    ViewOp(move_to_end_of_line(before_op), "move_to_end_of_line")
InsertChar ==
    \E c \in Graphemes : ViewOp(insert_char(before_op, c), "insert_char")
InsertNewline == ViewOp(insert_newline(before_op), "insert_newline")
Delete == ViewOp(delete(before_op), "delete")
DeleteBackward == ViewOp(delete_backward(before_op), "delete_backward")
EnterSearch == ViewOp(enter_search(before_op), "enter_search")
Search == \E q \in Queries : ViewOp(search(before_op, q), "search")
SearchNext == ViewOp(search_next(before_op), "search_next")
SearchPrev == ViewOp(search_prev(before_op), "search_prev")
ExitSearch == ViewOp(exit_search(before_op), "exit_search")
DismissSearch == ViewOp(dismiss_search(before_op), "dismiss_search")

EditorIdle ==
    /\ prompt_type = "None"
    /\ command_bar = <<>>
    /\ terminal_size = Size(0, 0)
    /\ quit_times = 0
    /\ should_quit = FALSE
    /\ last_op = "new"
    /\ session = None
    /\ prior = None
    /\ SessionIdle

(* A View that has loaded doc and been given a size. *)
ViewOf(doc, size) == View_resize(View_load(DefaultView, doc), size)

ViewInit ==
    /\ \E doc \in Docs : view = ViewOf(doc, Size(MaxViewHeight, MaxViewWidth))
    /\ EditorIdle

ViewNext ==
    \/ MoveUp
    \/ MoveDown
    \/ MoveLeft
    \/ MoveRight
    \/ MoveToStartOfLine
    \/ MoveToEndOfLine
    \/ InsertChar
    \/ InsertNewline
    \/ Delete
    \/ DeleteBackward
    \/ EnterSearch
    \/ Search
    \/ SearchNext
    \/ SearchPrev
    \/ ExitSearch
    \/ DismissSearch

ViewSpec == ViewInit /\ [][ViewNext]_vars

-----------------------------------------------------------------------------
(* Searching: a View that holds any document, with the cursor moved to any *)
(* valid location and scrolled into view, taken through the search         *)
(* operations.                                                             *)

ViewAt(doc, size, loc) ==
    scroll_text_location_into_view(
        [ViewOf(doc, size) EXCEPT !.text_location = loc])

SearchInit ==
    /\ \E doc \in SearchDocs, size \in ViewSizes :
         \E loc \in ValidLocations(doc) : view = ViewAt(doc, size, loc)
    /\ EditorIdle

SearchNextStep ==
    \/ EnterSearch
    \/ Search
    \/ SearchNext
    \/ SearchPrev
    \/ ExitSearch
    \/ DismissSearch

SearchSpec == SearchInit /\ [][SearchNextStep]_vars

-----------------------------------------------------------------------------
(* Properties *)

ValidLocation(v) ==
    /\ v.text_location.line_idx <= height(v.buffer)
    /\ v.text_location.grapheme_idx
         <= line_count_at(v, v.text_location.line_idx)

(* C1: whenever refresh_screen renders the view, the cursor's display       *)
(* position lies inside the window that starts at the scroll offset and has *)
(* the view's size.                                                         *)
C1_CaretInsideWindow ==
    renders(terminal_size) =>
        /\ view.size = Size(terminal_size.height - 2, terminal_size.width)
        /\ Visible(view)

(* C1 happens: the view was rendered after it had to scroll both ways. *)
C1_Witness ==
    /\ renders(terminal_size)
    /\ Visible(view)
    /\ view.scroll_offset.row > 0
    /\ view.scroll_offset.col > 0

(* C2: after any sequence of the View's operations text_location is valid:  *)
(* line_idx <= height() and grapheme_idx <= the grapheme count of its line  *)
(* (0 past the last line).                                                  *)
C2_TextLocationValid == ValidLocation(view)

(* C3: no key event makes a debug assertion of the View fail: whenever a    *)
(* search is executed a search context holding a query is present.          *)
C3_NoAssertionFails == ~view.panicked

(* Occurrences of a query in a document, one by one (overlapping ones       *)
(* included).                                                               *)
OccursAt(doc, query, loc) ==
    /\ query /= <<>>
    /\ loc.line_idx < Len(doc)
    /\ loc.grapheme_idx + Len(query) <= Len(doc[loc.line_idx + 1])
    /\ SubSeq(doc[loc.line_idx + 1], loc.grapheme_idx + 1,
              loc.grapheme_idx + Len(query)) = query

Occurrences(doc, query) ==
    {loc \in ValidLocations(doc) : OccursAt(doc, query, loc)}

Searching(v) == IsSome(v.search_info)

(* A search context with a query that is not empty. *)
HasQuery(v) == IsSome(query_of(v)) /\ Unwrap(query_of(v)) /= <<>>

TheQuery(v) == Unwrap(query_of(v))

SearchSteps == {"search", "search_next", "search_prev"}

(* C4: dismiss_search clears the search context, and when only searches     *)
(* followed an enter_search made with the cursor visible, it leaves         *)
(* text_location and scroll_offset as enter_search found them.              *)
C4_DismissRestores ==
    last_op = "dismiss_search" =>
        /\ view.search_info = None
        /\ (IsSome(session) /\ Unwrap(session).visible) =>
               /\ view.text_location = Unwrap(session).text_location
               /\ view.scroll_offset = Unwrap(session).scroll_offset

(* C4 happens: a session whose searches moved the cursor was dismissed. *)
C4_Witness ==
    /\ last_op = "dismiss_search"
    /\ IsSome(session)
    /\ Unwrap(session).visible
    /\ Unwrap(session).moved
    /\ view.text_location = Unwrap(session).text_location

(* C5: exit_search discards the search context and leaves text_location,    *)
(* scroll_offset and the document as they are.                              *)
C5_ExitSearchKeepsLocation ==
    [][last_op' = "exit_search" =>
          /\ view'.search_info = None
          /\ view'.text_location = view.text_location
          /\ view'.scroll_offset = view.scroll_offset
          /\ view'.buffer = view.buffer]_vars

(* C5 happens: a search was confirmed with the cursor on a match away from  *)
(* where the session began.                                                 *)
C5_Witness ==
    /\ last_op = "exit_search"
    /\ view.search_info = None
    /\ IsSome(session)
    /\ Unwrap(session).moved
    /\ view.text_location /= Unwrap(session).text_location

(* C6: while searching, a search, search_next or search_prev whose query is *)
(* absent, empty or occurs nowhere leaves text_location and scroll_offset   *)
(* unchanged.                                                               *)
C6_NoMatchNoRelocation ==
    [][(/\ last_op' \in SearchSteps
        /\ Searching(view)
        /\ (HasQuery(view') =>
               Occurrences(view.buffer.lines, TheQuery(view')) = {}))
       => /\ view'.text_location = view.text_location
          /\ view'.scroll_offset = view.scroll_offset]_vars

(* C6 happens: a search ran for a query that the document does not hold. *)
C6_Witness ==
    /\ last_op \in SearchSteps
    /\ HasQuery(view)
    /\ TotalGraphemes(view.buffer.lines) > 0
    /\ Occurrences(view.buffer.lines, TheQuery(view)) = {}

(* C7: when a search finds a match, text_location is the start of an        *)
(* occurrence and, for every view size with height >= 1 and width >= 1,     *)
(* lies inside the visible window right after the search.                   *)
C7_MatchCentredInsideWindow ==
    (/\ last_op \in SearchSteps
     /\ HasQuery(view)
     /\ Occurrences(view.buffer.lines, TheQuery(view)) /= {}
     /\ view.size.height >= 1
     /\ view.size.width >= 1)
    => /\ OccursAt(view.buffer.lines, TheQuery(view), view.text_location)
       /\ Visible(view)

(* C8: with the query occurring exactly once and the cursor on that         *)
(* occurrence, search_next leaves text_location where it is.                *)
C8_SearchNextWrapsToSame ==
    [][(/\ last_op' = "search_next"
        /\ HasQuery(view)
        /\ Occurrences(view.buffer.lines, TheQuery(view))
             = {view.text_location})
       => view'.text_location = view.text_location]_vars

(* C8 happens: search_next ran in a session whose cursor has been on the    *)
(* only occurrence all along.                                               *)
C8_Witness ==
    /\ last_op = "search_next"
    /\ HasQuery(view)
    /\ Occurrences(view.buffer.lines, TheQuery(view)) = {view.text_location}
    /\ IsSome(session)
    /\ ~Unwrap(session).moved
    /\ Unwrap(session).text_location = view.text_location

(* C9: with the cursor on an occurrence of the query, search_next followed  *)
(* immediately by search_prev brings text_location back to it.              *)
C9_NextThenPrevReturns ==
    (/\ HasQuery(view)
     /\ OccursAt(view.buffer.lines, TheQuery(view), view.text_location))
    => search_prev(search_next(view)).text_location = view.text_location

(* C10: while searching with the cursor at the start of an occurrence of    *)
(* the current query, search(query) with a longer query that begins with    *)
(* the current one and occurs at the cursor too leaves text_location on     *)
(* that occurrence.                                                         *)
C10_TypingKeepsMatch ==
    [][(/\ last_op' = "search"
        /\ HasQuery(view)
        /\ OccursAt(view.buffer.lines, TheQuery(view), view.text_location)
        /\ Len(TheQuery(view')) > Len(TheQuery(view))
        /\ SubSeq(TheQuery(view'), 1, Len(TheQuery(view))) = TheQuery(view)
        /\ OccursAt(view.buffer.lines, TheQuery(view'), view.text_location))
       => view'.text_location = view.text_location]_vars

-----------------------------------------------------------------------------
(* Single operations of the View, each one remembered together with the     *)
(* View it was applied to.                                                  *)

DocSize(lines) == Len(lines) + TotalGraphemes(lines)

EditDocs == UNION {DocsOf(k, MaxEditDocSize - k) : k \in 0..MaxEditDocSize}

ScrollDocs ==
    UNION {DocsOf(k, MaxScrollDocSize - k) : k \in 0..MaxScrollDocSize}

Step(v, op) ==
    /\ v.buffer.lines = view.buffer.lines
       \/ DocSize(v.buffer.lines) <= MaxEditDocSize
    /\ view' = v
    /\ last_op' = op
    /\ prior' = Some(before_op)
    /\ UNCHANGED session
    /\ ViewUnchangedEditor
    /\ SessionUnchanged

OpMoveUp == Step(move_up(before_op, 1), "move_up")
OpMoveDown == Step(move_down(before_op, 1), "move_down")
OpMoveLeft == Step(move_left(before_op), "move_left")
OpMoveRight == Step(move_right(before_op), "move_right")
OpInsertChar ==
    \E c \in Graphemes : Step(insert_char(before_op, c), "insert_char")
OpInsertNewline == Step(insert_newline(before_op), "insert_newline")
OpDelete == Step(delete(before_op), "delete")
OpDeleteBackward == Step(delete_backward(before_op), "delete_backward")
OpScrollIntoView ==
    Step(scroll_text_location_into_view(before_op),
         "scroll_text_location_into_view")
OpResize ==
    \E size \in ViewSizes : Step(View_resize(before_op, size), "resize")
OpRender ==
    \E draw_ok \in BOOLEAN : Step(View_render(before_op, draw_ok), "render")

(* Editing: any document, the cursor at any valid location. *)
EditInit ==
    /\ \E doc \in EditDocs :
         \E loc \in ValidLocations(doc) :
            view = ViewAt(doc, Size(MaxViewHeight, MaxViewWidth), loc)
    /\ EditorIdle

EditNext ==
    \/ OpMoveUp
    \/ OpMoveDown
    \/ OpMoveLeft
    \/ OpMoveRight
    \/ OpInsertChar
    \/ OpInsertNewline
    \/ OpDelete
    \/ OpDeleteBackward

EditSpec == EditInit /\ [][EditNext]_vars

(* Scrolling and rendering: the cursor moves without the window following   *)
(* it, until the View is told to scroll, is resized or is rendered.         *)
ScrollInit ==
    /\ \E doc \in ScrollDocs, size \in ViewSizes :
         \E loc \in ValidLocations(doc) : view = ViewAt(doc, size, loc)
    /\ EditorIdle

ScrollNext ==
    \/ OpMoveUp
    \/ OpMoveDown
    \/ OpMoveLeft
    \/ OpMoveRight
    \/ OpScrollIntoView
    \/ OpResize
    \/ OpRender

ScrollSpec == ScrollInit /\ [][ScrollNext]_vars

(* Where an offset has to be for the cursor coordinate to be inside a       *)
(* window of the given size: unchanged if it is inside, the coordinate if   *)
(* it is before the window, coordinate - size + 1 if it is past it.         *)
MinimalOffset(offset, to, size) ==
    IF to < offset THEN to
    ELSE IF to >= offset + size THEN to - size + 1
    ELSE offset

(* C11: scroll_text_location_into_view, for a view with height >= 1 and     *)
(* width >= 1, leaves an offset unchanged when the cursor is inside the     *)
(* window in that direction, moves it to the cursor if the cursor was       *)
(* before the window and to cursor - size + 1 if it was past it; applying   *)
(* it a second time changes nothing.                                        *)
C11_ScrollIntoViewMinimal ==
    (/\ last_op = "scroll_text_location_into_view"
     /\ IsSome(prior)
     /\ Unwrap(prior).size.height >= 1
     /\ Unwrap(prior).size.width >= 1)
    => LET p == Unwrap(prior)
           to == text_location_to_position(p)
       IN /\ view.scroll_offset.row =
                MinimalOffset(p.scroll_offset.row, to.row, p.size.height)
          /\ view.scroll_offset.col =
                MinimalOffset(p.scroll_offset.col, to.col, p.size.width)
          /\ view.text_location = p.text_location
          /\ view.buffer = p.buffer
          /\ scroll_text_location_into_view(view) = view

(* C11 happens: the cursor was past the window to the right and below the   *)
(* top row it shows, and the scroll moved the window.                       *)
C11_Witness ==
    /\ last_op = "scroll_text_location_into_view"
    /\ IsSome(prior)
    /\ text_location_to_position(Unwrap(prior)).col >=
           Unwrap(prior).scroll_offset.col + Unwrap(prior).size.width
    /\ Unwrap(prior).scroll_offset.col > 0
    /\ view.scroll_offset /= Unwrap(prior).scroll_offset

(* The cursor of a View is at the end of a line that has a line after it. *)
AtEndOfNonLastLine(v) ==
    /\ v.text_location.line_idx + 1 < height(v.buffer)
    /\ v.text_location.grapheme_idx =
         line_count_at(v, v.text_location.line_idx)

(* The cursor of a View is at the end of the document: past the last line   *)
(* or at the end of the last line.                                          *)
AtEndOfDocument(v) ==
    \/ v.text_location.line_idx >= height(v.buffer)
    \/ /\ v.text_location.line_idx + 1 = height(v.buffer)
       /\ v.text_location.grapheme_idx =
            line_count_at(v, v.text_location.line_idx)

(* C12: delete with the cursor at the end of a non-last line appends the    *)
(* following line's content to the current line and removes that line,      *)
(* leaving the other lines and the cursor unchanged; delete at the end of   *)
(* the document changes no line.                                            *)
C12_DeleteMergesLines ==
    (last_op = "delete" /\ IsSome(prior)) =>
        LET p == Unwrap(prior)
            old == p.buffer.lines
            l == p.text_location.line_idx
        IN /\ AtEndOfNonLastLine(p) =>
                /\ view.buffer.lines =
                      SubSeq(old, 1, l) \o <<old[l + 1] \o old[l + 2]>>
                      \o SubSeq(old, l + 3, Len(old))
                /\ height(view.buffer) = height(p.buffer) - 1
                /\ view.text_location = p.text_location
           /\ AtEndOfDocument(p) => view.buffer.lines = old

(* C12 happens: a delete merged two lines that both hold text, with a line  *)
(* before or after them.                                                    *)
C12_Witness ==
    /\ last_op = "delete"
    /\ IsSome(prior)
    /\ AtEndOfNonLastLine(Unwrap(prior))
    /\ height(Unwrap(prior).buffer) >= 3
    /\ Unwrap(prior).text_location.grapheme_idx > 0
    /\ height(view.buffer) = height(Unwrap(prior).buffer) - 1

(* C13: insert_newline with the cursor at (l, g) on an existing line splits *)
(* line l at grapheme g into two consecutive lines, keeps the other lines   *)
(* in order, adds exactly one to height() and leaves the cursor at          *)
(* (l + 1, 0).                                                              *)
C13_InsertNewlineSplits ==
    (/\ last_op = "insert_newline"
     /\ IsSome(prior)
     /\ Unwrap(prior).text_location.line_idx < height(Unwrap(prior).buffer)
     /\ ValidLocation(Unwrap(prior)))
    => LET p == Unwrap(prior)
           old == p.buffer.lines
           l == p.text_location.line_idx
           g == p.text_location.grapheme_idx
       IN /\ view.buffer.lines =
                SubSeq(old, 1, l)
                \o <<SubSeq(old[l + 1], 1, g),
                     SubSeq(old[l + 1], g + 1, Len(old[l + 1]))>>
                \o SubSeq(old, l + 2, Len(old))
          /\ height(view.buffer) = height(p.buffer) + 1
          /\ view.text_location = Location(l + 1, 0)

(* C13 happens: a line was split in its middle, with another line after it. *)
C13_Witness ==
    /\ last_op = "insert_newline"
    /\ IsSome(prior)
    /\ Unwrap(prior).text_location.line_idx + 1 < height(Unwrap(prior).buffer)
    /\ Unwrap(prior).text_location.grapheme_idx > 0
    /\ Unwrap(prior).text_location.grapheme_idx <
         line_count_at(Unwrap(prior), Unwrap(prior).text_location.line_idx)
    /\ view.text_location.grapheme_idx = 0

(* C18: from every valid text location other than (height(), 0), move_right *)
(* followed by move_left returns to the same location; move_left at (0, 0)  *)
(* and move_right at (height(), 0) leave the location unchanged.            *)
C18_MoveRightThenLeft ==
    ValidLocation(view) =>
        /\ view.text_location /= Location(height(view.buffer), 0) =>
               move_left(move_right(view)).text_location = view.text_location
        /\ view.text_location = Location(0, 0) =>
               move_left(view).text_location = view.text_location
        /\ view.text_location = Location(height(view.buffer), 0) =>
               move_right(view).text_location = view.text_location

(* C18 happens: move_left has just crossed back from the start of a line to *)
(* the end of the line before it, which holds text.                         *)
C18_Witness ==
    /\ last_op = "move_left"
    /\ IsSome(prior)
    /\ Unwrap(prior).text_location.grapheme_idx = 0
    /\ Unwrap(prior).text_location.line_idx = view.text_location.line_idx + 1
    /\ view.text_location.grapheme_idx > 0
    /\ move_right(view).text_location = Unwrap(prior).text_location

(* C19: render calls draw if and only if needs_redraw is true and clears    *)
(* needs_redraw only when draw succeeds: after a failed draw the flag stays *)
(* true, so that the next render draws again, and a render with the flag    *)
(* false draws nothing and changes nothing.                                 *)
C19_RenderDrawsWhenNeeded ==
    (last_op = "render" /\ IsSome(prior)) =>
        LET p == Unwrap(prior)
        IN /\ view.drawn /= "no" <=> p.needs_redraw
           /\ view.needs_redraw /= p.needs_redraw =>
                 view.drawn = "ok" /\ ~view.needs_redraw
           /\ view.drawn = "ok" => ~view.needs_redraw
           /\ view.drawn = "failed" =>
                 /\ view.needs_redraw
                 /\ View_render(view, TRUE).drawn = "ok"
           /\ ~p.needs_redraw => view = p

(* C19 happens: the draw of a render failed and the flag stayed set, on a   *)
(* View that holds text.                                                    *)
C19_Witness ==
    /\ last_op = "render"
    /\ IsSome(prior)
    /\ Unwrap(prior).needs_redraw
    /\ view.drawn = "failed"
    /\ view.needs_redraw
    /\ view.buffer.lines /= <<>>

(* A key press that is not a quit request (Ctrl-Q, or Esc outside a         *)
(* prompt, which dismiss_prompt hands to handle_quit).                      *)
NonQuitKey ==
    \/ KeyChar
    \/ KeyUnbound
    \/ KeySave
    \/ KeyFind
    \/ KeyMoveUp
    \/ KeyMoveDown
    \/ KeyMoveLeft
    \/ KeyMoveRight
    \/ KeyPageUp
    \/ KeyPageDown
    \/ KeyHome
    \/ KeyEnd
    \/ KeyTab
    \/ KeyEnter
    \/ KeyBackspace
    \/ KeyDelete
    \/ (prompt_type /= "None" /\ KeyEsc)

(* C20: quit_times always stays below QUIT_TIMES, every key press that is   *)
(* not a quit request resets it to zero, and with a modified document       *)
(* should_quit becomes true only at a quit request that finds the counter   *)
(* at QUIT_TIMES - 1.                                                       *)
C20_QuitNeedsConsecutiveRequests ==
    [][/\ quit_times' < QUIT_TIMES
       /\ NonQuitKey => quit_times' = 0
       /\ (view.buffer.dirty /\ should_quit') =>
              (KeyQuit /\ quit_times = QUIT_TIMES - 1)]_vars

-----------------------------------------------------------------------------
(* The session: the Editor's run from Editor::new to the end of the         *)
(* process, over small documents, with the message bar, the calls of each   *)
(* step, failing writes, failing draws, failing reads and the build         *)
(* followed.  Terminal::initialize has succeeded (when it fails, new        *)
(* returns the error and there is no Editor).                               *)

SessionDocs ==
    UNION {DocsOf(k, MaxSessionDocSize - k) : k \in 0..MaxSessionDocSize}

(* The terminals of a session: tall enough to render. *)
SessionTermSizes ==
    {Size(h, w) : h \in 3..MaxTermHeight, w \in 1..MaxSessionTermWidth}

Builds == {"debug", "release"}

Terminate == Call("terminate", "", TRUE)

(* The panic hook that Editor::new installs. *)
panic_hook(log) == Append(log, Terminate)

(* impl Drop for Editor *)
Editor_drop(e) ==
    IF e.should_quit
    THEN logged(logged(e, Terminate), Call("print", "", TRUE))
    ELSE logged(e, Terminate)

(* A panic: the hook runs, and where the build unwinds the stack, the       *)
(* Editor is dropped.                                                       *)
panic(e, unwinds) ==
    LET hooked == [e EXCEPT !.io_log = panic_hook(@)]
    IN IF unwinds THEN Editor_drop(hooked) ELSE hooked

SessionInit ==
    \E size \in SessionTermSizes, arg \in Args, draws \in Draws,
       unwinds \in BOOLEAN :
      \E read \in Reads(arg, SessionDocs) :
        /\ build \in Builds
        /\ LET debug == build = "debug"
               asserted == debug /\ ~file_name_assert(arg)
               r == IF asserted THEN Editor_new_started(size)
                    ELSE refresh_screen(Editor_new(size, arg, read), draws,
                                        debug)
               panics == asserted \/ (debug /\ DrawFailed(r.view, r.io_log))
               end == IF panics THEN panic(r, unwinds) ELSE r
           IN /\ Is(end)
              /\ message = end.message
              /\ io_log = end.io_log
              /\ phase = IF panics THEN "panicked" ELSE "running"
        /\ last_op = "new"
        /\ session = None
        /\ prior = None

(* One iteration of Editor::run: event is the Editor after evaluate_event,  *)
(* and the screen is refreshed as refresh_screen(event, draws, debug) does, *)
(* the View being resized once for all the outcomes of the draws.  In a     *)
(* debug build a failed debug_assert! ends the run before the screen is     *)
(* refreshed, and a failed draw ends it in refresh_screen.                  *)
SessionIteration(event, op) ==
    /\ phase = "running"
    /\ ~should_quit
    /\ \E e \in {event} :
         /\ DocSize(e.view.buffer.lines) <= MaxSessionDocSize
         /\ Len(e.command_bar) <= MaxQueryLen
         /\ \E sized \in {resize_content(e)}, draws \in Draws :
              LET asserted == build = "debug" /\ e.view.panicked
              IN \E r \in {IF asserted THEN e
                           ELSE render_components(sized, draws,
                                                  build = "debug")} :
                   LET panics == asserted
                                 \/ (build = "debug"
                                     /\ DrawFailed(r.view, r.io_log))
                   IN \E unwinds \in (IF panics THEN BOOLEAN ELSE {FALSE}) :
                        \E end \in {IF panics THEN panic(r, unwinds) ELSE r} :
                          /\ Becomes(end)
                          /\ message' = end.message
                          /\ io_log' = end.io_log
                          /\ phase' = IF panics THEN "panicked" ELSE "running"
    /\ last_op' = op
    /\ UNCHANGED <<build, session, prior>>

(* The commands that can write the file. *)
Writing == {"save", "insert_newline"}

(* The keys of a session: the bound commands and a key bound to none. *)
SessionCommands == Commands \cup {""}

SessionKey ==
    \E command \in SessionCommands :
        \E io_ok \in (IF command \in Writing THEN BOOLEAN ELSE {TRUE}) :
            SessionIteration(process_command(before_event, command, io_ok),
                             IF command \in Writing THEN command ELSE "event")

SessionChar ==
    \E c \in TypedChars :
        SessionIteration(evaluate_char(before_event, c), "event")

SessionResize ==
    \E size \in SessionTermSizes :
        SessionIteration(Editor_resize(before_event, size), "event")

(* read() returns an error: a debug build panics, a release build goes on   *)
(* to the next iteration.                                                   *)
SessionReadError ==
    /\ phase = "running"
    /\ ~should_quit
    /\ IF build = "debug"
       THEN \E unwinds \in BOOLEAN :
              LET end == panic(before_event, unwinds)
              IN /\ Becomes(end)
                 /\ message' = end.message
                 /\ io_log' = end.io_log
                 /\ phase' = "panicked"
                 /\ last_op' = "read_error"
                 /\ UNCHANGED <<build, session, prior>>
       ELSE SessionIteration(before_event, "event")

(* should_quit ends the loop; run returns and the Editor is dropped. *)
SessionExit ==
    /\ phase = "running"
    /\ should_quit
    /\ LET end == Editor_drop(before_event)
       IN /\ Becomes(end)
          /\ message' = end.message
          /\ io_log' = end.io_log
    /\ phase' = "exited"
    /\ last_op' = "exit"
    /\ UNCHANGED <<build, session, prior>>

SessionNext ==
    \/ SessionKey
    \/ SessionChar
    \/ SessionResize
    \/ SessionReadError
    \/ SessionExit

SessionSpec == SessionInit /\ [][SessionNext]_vars

(* The calls of the last step with the given name. *)
CallsOf(log, name) == {i \in DOMAIN log : log[i].call = name}

(* Did the last step call save or save_as with the result ok? *)
Saved(log, ok) ==
    \E i \in DOMAIN log : log[i].call \in {"save", "save_as"} /\ log[i].ok = ok

(* C14: the dirty flag is cleared only by a successful save or save_as; a   *)
(* failed save leaves the flag and the lines as they were, puts the error   *)
(* in the message bar and does not end the run (only a failed draw of the   *)
(* same iteration can, in a debug build); every step that changes the lines *)
(* sets the flag.                                                           *)
C14_DirtyClearedOnlyBySave ==
    [][/\ (view.buffer.dirty /\ ~view'.buffer.dirty) => Saved(io_log', TRUE)
       /\ Saved(io_log', FALSE) =>
              /\ view'.buffer.dirty = view.buffer.dirty
              /\ view'.buffer.lines = view.buffer.lines
              /\ message' = MsgWriteError
              /\ ~should_quit'
              /\ phase' = "panicked" => DrawFailed(view', io_log')
       /\ Saved(io_log', TRUE) =>
              /\ ~view'.buffer.dirty
              /\ view'.buffer.lines = view.buffer.lines
              /\ message' = MsgSaved
       /\ view'.buffer.lines /= view.buffer.lines => view'.buffer.dirty]_vars

(* C14 witness: a modified document that holds a character, whose save has  *)
(* just failed; the error is in the message bar and the run goes on.        *)
C14_Witness ==
    /\ Saved(io_log, FALSE)
    /\ view.buffer.dirty
    /\ TotalGraphemes(view.buffer.lines) > 0
    /\ message = MsgWriteError
    /\ phase = "running"

(* C15: a failed load leaves the view as it was; a start ends by a panic    *)
(* only when a draw of the first refresh_screen fails; after a start with a *)
(* file that could not be read the document is the empty one with no file   *)
(* and the message bar holds the error; a document that is not the empty    *)
(* one at the start was read by a successful load.                          *)
C15_FailedLoadLeavesDocument ==
    /\ View_load_file(view, None) = view
    /\ last_op = "new" =>
          /\ phase = "panicked" => DrawFailed(view, io_log)
          /\ CallsOf(io_log, "load") /= {} /\ ~io_log[1].ok =>
                /\ view.buffer = DefaultView.buffer
                /\ message = MsgOpenError(io_log[1].name)
                /\ ~should_quit
          /\ view.buffer /= DefaultView.buffer =>
                CallsOf(io_log, "load") /= {} /\ io_log[1].ok

(* C16: when the session has ended, by quitting or by a panic, the terminal *)
(* has been released exactly once.                                          *)
C16_TerminateExactlyOnce ==
    phase /= "running" => Cardinality(CallsOf(io_log, "terminate")) = 1

(* C17: save() is called only with a file loaded; a save command with no    *)
(* file loaded and no prompt open opens the Save prompt and writes nothing; *)
(* save_as is called only by Enter in the Save prompt, with the prompt's    *)
(* value; Enter in the Save prompt calls save_as and closes the prompt,     *)
(* whatever the result.                                                     *)
C17_SaveNeedsDestination ==
    [][/\ CallsOf(io_log', "save") /= {} => view.buffer.file_loaded
       /\ (last_op' = "save" /\ ~view.buffer.file_loaded
             /\ prompt_type = "None") =>
              /\ prompt_type' = "Save"
              /\ ~Saved(io_log', TRUE) /\ ~Saved(io_log', FALSE)
              /\ view'.buffer = view.buffer
       /\ CallsOf(io_log', "save_as") /= {} =>
              /\ last_op' = "insert_newline"
              /\ prompt_type = "Save"
              /\ \A i \in CallsOf(io_log', "save_as") :
                     io_log'[i].name = Text(command_bar)
       /\ (last_op' = "insert_newline" /\ prompt_type = "Save") =>
              /\ CallsOf(io_log', "save_as") /= {}
              /\ prompt_type' = "None"
              /\ command_bar' = <<>>]_vars

(* C17 witness: Enter in the Save prompt has just written the document      *)
(* under the typed name, and the prompt is closed.                          *)
C17_Witness ==
    /\ last_op = "insert_newline"
    /\ io_log[1] = Call("save_as", "W", TRUE)
    /\ prompt_type = "None"
    /\ view.buffer.file_loaded

(* C21: in every state of the Editor the View holds a search context if and *)
(* only if the prompt is the Find prompt.                                   *)
C21_SearchContextIffFind ==
    IsSome(view.search_info) <=> prompt_type = "Find"

(* C22: while a prompt is open no event changes the document's lines. *)
C22_PromptKeepsLines ==
    [][prompt_type /= "None" => view'.buffer.lines = view.buffer.lines]_vars

(* C24: while the Find prompt is open the query of the search context is    *)
(* the text of the command bar, and is absent only when that text is empty. *)
C24_QueryIsCommandBarText ==
    prompt_type = "Find" =>
        /\ IsSome(view.search_info)
        /\ IF HasQuery(view) THEN TheQuery(view) = command_bar
           ELSE command_bar = <<>>

-----------------------------------------------------------------------------
(* Find sessions of the Editor: the event loop over small documents, with   *)
(* the history of the Find session in progress.  session holds the View's   *)
(* snapshot taken before the event that opened the Find prompt from the     *)
(* no-prompt state; it is kept while the prompt stays open at the same      *)
(* terminal size, marked closed by the event that leaves the prompt, and    *)
(* forgotten afterwards.                                                    *)

FindDocs == UNION {DocsOf(k, MaxFindDocSize - k) : k \in 0..MaxFindDocSize}

FindSessionAfter(e, r) ==
    IF e.prompt_type = "None" /\ r.prompt_type = "Find"
    THEN Some(Snapshot(e.view))
    ELSE IF /\ e.prompt_type = "Find"
            /\ IsSome(session)
            /\ r.terminal_size = e.terminal_size
    THEN IF r.prompt_type = "Find" THEN session
         ELSE Some([Unwrap(session) EXCEPT !.closed = TRUE])
    ELSE None

FindInit ==
    \E size \in TermSizes, arg \in Args :
      \E read \in Reads(arg, FindDocs) :
        /\ Is(refresh_screen(Editor_new(size, arg, read), AllDrawn, FALSE))
        /\ last_op = "new"
        /\ session = None
        /\ prior = None
        /\ SessionIdle

FindIteration(e, op) ==
    /\ ~should_quit
    /\ DocSize(e.view.buffer.lines) <= MaxFindDocSize
    /\ Len(e.command_bar) <= MaxQueryLen
    /\ LET r == refresh_screen(e, AllDrawn, FALSE)
       IN /\ Becomes(r)
          /\ session' = FindSessionAfter(before_event, r)
    /\ last_op' = op
    /\ UNCHANGED prior
    /\ SessionUnchanged

FindKey ==
    \E command \in Commands \cup {""} :
        \E io_ok \in (IF command \in Writing THEN BOOLEAN ELSE {TRUE}) :
            FindIteration(process_command(before_event, command, io_ok),
                          IF command = "dismiss" THEN command ELSE "event")

FindChar ==
    \E c \in TypedChars : FindIteration(evaluate_char(before_event, c), "event")

FindResize ==
    \E size \in TermSizes :
        FindIteration(Editor_resize(before_event, size), "event")

FindNext ==
    \/ FindKey
    \/ FindChar
    \/ FindResize

FindSpec == FindInit /\ [][FindNext]_vars

(* C23: when Esc closes a Find session that was opened from the no-prompt   *)
(* state and saw no change of the terminal size, text_location is what it   *)
(* was before the session started.                                          *)
C23_EscRestoresLocation ==
    (last_op = "dismiss" /\ IsSome(session) /\ Unwrap(session).closed) =>
        view.text_location = Unwrap(session).text_location

(* Is the cursor on a line of the document? *)
OnExistingLine(v) == v.text_location.line_idx < height(v.buffer)

(* C25: with the cursor on an existing line, insert_newline followed by     *)
(* delete_backward gives back the lines and the text_location; at (0, 0)    *)
(* delete_backward changes neither the lines nor the text_location.         *)
C25_NewlineThenBackspace ==
    /\ OnExistingLine(view) =>
          LET back == delete_backward(insert_newline(view))
          IN /\ back.buffer.lines = view.buffer.lines
             /\ back.text_location = view.text_location
    /\ view.text_location = Location(0, 0) =>
          /\ delete_backward(view).buffer.lines = view.buffer.lines
          /\ delete_backward(view).text_location = view.text_location

====
